---------------------------- MODULE Spec2Model ----------------------------
(***************************************************************************)
(* A model of ckb-typed-message-signing (rust/src/lib.rs and               *)
(* rust/src/eip712.rs).                                                    *)
(*                                                                         *)
(* lib.rs: the witness scan fetch_sighash_with_action, its wrapper         *)
(* is_typed_transaction, the sighash-all digest generate_sighash_all_hash  *)
(* and the input-count probe calculate_inputs_len.  Every loop iteration   *)
(* of the source is one action; the bytes given to the hasher are kept in  *)
(* the variable fed, the syscalls made in the variable log.                *)
(*                                                                         *)
(* eip712.rs: fetch_hash, hash_struct, encode_value, encode_number and     *)
(* build_typed_message_hash as recursive operators over a tree of values.  *)
(*                                                                         *)
(* Bytes are integers 0..255, byte strings are sequences of them.          *)
(***************************************************************************)
EXTENDS Integers, Sequences, FiniteSets

VARIABLES
    txHash,     \* Port: the transaction hash (32 bytes)
    nInputs,    \* Port: the number of inputs of the transaction
    witnesses,  \* Port: the witnesses of the transaction, index 0 first
    group,      \* Port: the input indices of the running script's group
    fault,      \* Port: the one syscall that fails with a SysError other
                \*       than IndexOutOfBound, or NoFault
    op,         \* the public operation that was called
    pc,         \* the position in its code
    i,          \* lib.rs: the loop index i
    lo,         \* calculate_inputs_len: lo
    hi,         \* calculate_inputs_len: hi
    found,      \* fetch_sighash_with_action: result (<<>> is None)
    fed,        \* every byte given to hasher.update, in order
    ret,        \* the value the operation returned
    typed,      \* the boolean is_typed_transaction returned
    log,        \* the syscalls made so far (at most MaxReads are kept)
    val,        \* eip712: the value (or struct) handed to the operation
    dom,        \* eip712: the domain separator of the typed message
    other,      \* a second transaction, for the comparison of two digests
    first,      \* the outcome of the run on the first transaction
    run         \* 1 while the first transaction is processed, then 2

vars == <<txHash, nInputs, witnesses, group, fault, op, pc, i, lo, hi, found,
          fed, ret, typed, log, val, dom, other, first, run>>

portVars == <<txHash, nInputs, witnesses, group, fault>>
eipVars  == <<val, dom>>
pairVars == <<other, first, run>>

-----------------------------------------------------------------------------
(* Bounds of the model.                                                    *)

MaxWitnesses == 3       \* witnesses of a scanned transaction
MaxInputs == 9          \* inputs of a transaction given to the probe
MaxTxInputs == 2        \* inputs of a transaction given to the digest
MaxTxWitnesses == 3     \* witnesses of a transaction given to the digest
MaxPairWitnesses == 2   \* witnesses of each of two compared transactions
MaxReads == 16          \* syscalls kept in the log
MaxPayloadLen == 33     \* bytes of an Int / Uint / FixedBytes payload
MaxArrayLen == 2        \* elements of an Array, values of a Struct

(* Program constants.                                                      *)

HashLen == 32           \* [u8; 32]
U64Len == 8             \* (w.len() as u64).to_le_bytes()
InitialHi == 4          \* let mut hi = 4
NumberWidth == 32       \* n.len() > 32, [fill; 32]
FixedBytesWidth == 32   \* f.len() > 32, [0u8; 32]

-----------------------------------------------------------------------------
(* Results.  Ok(x) carries x in out; Err(e) names the error; Panic is a    *)
(* Rust panic (the call does not return).                                  *)

Ok(x) == [st |-> "Ok", err |-> "", out |-> x]
Err(e) == [st |-> "Err", err |-> e, out |-> <<>>]
Panic == [st |-> "Panic", err |-> "index out of bounds", out |-> <<>>]
NoResult == [st |-> "none", err |-> "", out |-> <<>>]

\* impl From<SysError> for Error: Error::Sys(e), one error for each SysError
\* (a SysError is written as Rust prints it, payload included).
SysToError(e) == "Sys(" \o e \o ")"

RECURSIVE LeBytes(_, _)
\* n.to_le_bytes() for an integer of w bytes
LeBytes(n, w) ==
    IF w = 0 THEN <<>> ELSE <<n % 256>> \o LeBytes(n \div 256, w - 1)

RECURSIVE Weighed(_, _, _)
\* The sum over the bytes a..b of s, each weighed by its position.
Weighed(s, a, b) ==
    IF a > b THEN 0
    ELSE IF a = b THEN ((s[a] + 1) * ((((a * a) % 251) * 31) + (a * 7) + 1)) % 65521
    ELSE (Weighed(s, a, (a + b) \div 2)
            + Weighed(s, (a + b) \div 2 + 1, b)) % 65521

\* A 32-byte digest of a byte string.  The hash functions are external
\* crates; the model keeps their determinism, their dependence on every
\* byte and its position, and their output width, and nothing of their
\* cryptography.
Digest(seed, s) ==
    [k \in 1..HashLen |->
        ((((seed + (Len(s) * 7919) + Weighed(s, 1, Len(s))) % 65521) * k)
            + (k * k)) % 256]

\* Blake2bBuilder::new(32).personal(b"ckb-default-hash"), update, finalize
Blake2b(input) == Digest(5381, input)

\* Keccak256::default(), update, finalize
Keccak256(input) == Digest(1, input)

-----------------------------------------------------------------------------
(* The ExtendedWitness union (schemas::top_level).  A witness is a byte    *)
(* string; its first byte is the union's item id, the rest the item:       *)
(*   0  Sighash: the opaque signature bytes                                *)
(*   1  SighashWithAction: the message                                     *)
(*   2  a further variant (neither of the two above)                       *)
(* An empty witness, or any other id, does not verify as ExtendedWitness.  *)

IdSighash == 0
IdSighashWithAction == 1
IdOtherVariant == 2

\* ExtendedWitnessReader::from_slice(&witness), then to_enum()
ParseWitness(w) ==
    IF Len(w) = 0 THEN [kind |-> "Invalid", body |-> <<>>]
    ELSE CASE w[1] = IdSighash -> [kind |-> "Sighash", body |-> Tail(w)]
           [] w[1] = IdSighashWithAction ->
                  [kind |-> "SighashWithAction", body |-> Tail(w)]
           [] w[1] = IdOtherVariant -> [kind |-> "Other", body |-> Tail(w)]
           [] OTHER -> [kind |-> "Invalid", body |-> <<>>]

\* A scan that takes any witness that verifies for the action.
IsSighashWithAction_AnyVariant(w) == ParseWitness(w).kind # "Invalid"

\* if let Ok(r) = from_slice(..) { if let SighashWithAction(s) = r.to_enum()
IsSighashWithAction(w) == ParseWitness(w).kind = "SighashWithAction"

\* s.to_entity() / s.message().as_slice()
MessageOf(w) == ParseWitness(w).body

-----------------------------------------------------------------------------
(* The Port: the syscalls of ckb_std the library reads the transaction     *)
(* through.  Indices are 0-based as in the source.                         *)

NoFault == [call |-> "none", source |-> "", index |-> 0, err |-> ""]

Faulty(call, source, idx) ==
    /\ fault.call = call
    /\ fault.source = source
    /\ fault.index = idx

\* load_witness(idx, source)
LoadWitness(idx, source) ==
    IF Faulty("load_witness", source, idx) THEN Err(fault.err)
    ELSE IF source = "Input"
         THEN IF idx < Len(witnesses) THEN Ok(witnesses[idx + 1])
              ELSE Err("IndexOutOfBound")
         ELSE IF idx < Len(group) /\ group[idx + 1] < Len(witnesses)
              THEN Ok(witnesses[group[idx + 1] + 1])
              ELSE Err("IndexOutOfBound")

\* load_input_since(idx, Source::Input)
LoadInputSince(idx) ==
    IF Faulty("load_input_since", "Input", idx) THEN Err(fault.err)
    ELSE IF idx < nInputs THEN Ok(<<>>) ELSE Err("IndexOutOfBound")

\* load_tx_hash()
LoadTxHash ==
    IF Faulty("load_tx_hash", "", 0) THEN Err(fault.err) ELSE Ok(txHash)

\* The log after one more syscall.
Logged(call, source, idx) ==
    IF Len(log) < MaxReads
    THEN Append(log, [call |-> call, source |-> source, index |-> idx])
    ELSE log

-----------------------------------------------------------------------------
(* fetch_sighash_with_action and is_typed_transaction.                     *)

\* A return of fetch_sighash_with_action: to its caller.
FetchReturn(r) ==
    /\ ret' = r
    /\ pc' = IF op = "is_typed_transaction" THEN "is_ok" ELSE "done"

\* One iteration of `while result.is_none()` (lib.rs 44-57).
FetchFind ==
    /\ pc = "find"
    /\ log' = Logged("load_witness", "Input", i)
    /\ LET r == LoadWitness(i, "Input") IN
       IF r.st = "Ok"
       THEN /\ found' = IF IsSighashWithAction(r.out)
                        THEN <<MessageOf(r.out)>> ELSE found
            /\ i' = i + 1
            /\ pc' = IF found' # <<>> THEN "dup" ELSE "find"
            /\ UNCHANGED ret
       ELSE /\ IF r.err = "IndexOutOfBound"
               THEN FetchReturn(Err("NotTypedTransaction"))
               ELSE FetchReturn(Err(SysToError(r.err)))
            /\ UNCHANGED <<found, i>>
    /\ UNCHANGED <<portVars, op, lo, hi, fed, typed, eipVars, pairVars>>

\* One iteration of the second `loop` (lib.rs 60-72).  The source does not
\* advance i in this loop.
FetchDup ==
    /\ pc = "dup"
    /\ log' = Logged("load_witness", "Input", i)
    /\ LET r == LoadWitness(i, "Input") IN
       IF r.st = "Ok"
       THEN IF IsSighashWithAction(r.out)
            THEN FetchReturn(Err("DuplicateAction"))
            ELSE UNCHANGED <<ret, pc>>
       ELSE IF r.err = "IndexOutOfBound"
            THEN FetchReturn(Ok(found[1]))
            ELSE FetchReturn(Err(SysToError(r.err)))
    /\ UNCHANGED <<portVars, op, i, lo, hi, found, fed, typed, eipVars,
                   pairVars>>

\* is_typed_transaction: fetch_sighash_with_action().is_ok()
IsTypedTransaction ==
    /\ pc = "is_ok"
    /\ typed' = IF ret.st = "Ok" THEN "true" ELSE "false"
    /\ pc' = "done"
    /\ UNCHANGED <<portVars, op, i, lo, hi, found, fed, ret, log, eipVars,
                   pairVars>>

-----------------------------------------------------------------------------
(* calculate_inputs_len.                                                   *)

\* A probe that returns the last index found instead of the first missing.
CountReturnOk_Lo ==
    IF op = "calculate_inputs_len"
    THEN /\ ret' = Ok(<<lo>>)
         /\ pc' = "done"
         /\ UNCHANGED i
    ELSE /\ i' = lo
         /\ pc' = "rest"
         /\ UNCHANGED ret

\* Ok(hi) (lib.rs 180): to the caller, which for the digest is the loop
\* over the remaining witnesses (lib.rs 128).
CountReturnOk ==
    IF op = "calculate_inputs_len"
    THEN /\ ret' = Ok(<<hi>>)
         /\ pc' = "done"
         /\ UNCHANGED i
    ELSE /\ i' = hi
         /\ pc' = "rest"
         /\ UNCHANGED ret

\* return Err(e) (lib.rs 163, 176): the SysError itself; in the digest `?`
\* (lib.rs 128) makes it Error::Sys.
CountReturnErr(e) ==
    /\ ret' = IF op = "calculate_inputs_len" THEN Err(e) ELSE Err(SysToError(e))
    /\ pc' = "done"
    /\ UNCHANGED i

\* One iteration of the first loop (lib.rs 154-165).
CountExp ==
    /\ pc = "exp"
    /\ log' = Logged("load_input_since", "Input", hi)
    /\ LET r == LoadInputSince(hi) IN
       IF r.st = "Ok"
       THEN /\ lo' = hi
            /\ hi' = hi * 2
            /\ UNCHANGED <<pc, ret, i>>
       ELSE IF r.err = "IndexOutOfBound"
            THEN /\ pc' = "bin"
                 /\ UNCHANGED <<lo, hi, ret, i>>
            ELSE /\ CountReturnErr(r.err)
                 /\ UNCHANGED <<lo, hi>>
    /\ UNCHANGED <<portVars, op, found, fed, typed, eipVars, pairVars>>

\* The test of `while (lo + 1) != hi` and one iteration (lib.rs 167-180).
CountBin ==
    /\ pc = "bin"
    /\ IF lo + 1 = hi
       THEN /\ CountReturnOk
            /\ UNCHANGED <<lo, hi, log>>
       ELSE LET m == (lo + hi) \div 2
                r == LoadInputSince(m)
            IN /\ log' = Logged("load_input_since", "Input", m)
               /\ IF r.st = "Ok"
                  THEN /\ lo' = m
                       /\ UNCHANGED <<hi, pc, ret, i>>
                  ELSE IF r.err = "IndexOutOfBound"
                       THEN /\ hi' = m
                            /\ UNCHANGED <<lo, pc, ret, i>>
                       ELSE /\ CountReturnErr(r.err)
                            /\ UNCHANGED <<lo, hi>>
    /\ UNCHANGED <<portVars, op, found, fed, typed, eipVars, pairVars>>

-----------------------------------------------------------------------------
(* generate_sighash_all_hash.                                              *)

\* A digest that covers the signature bytes of a Sighash witness too.
FirstUpdate_WithSignature(w) ==
    IF w.kind = "SighashWithAction" THEN <<1>> \o w.body ELSE <<0>> \o w.body

\* The bytes hashed for the group's first witness (lib.rs 93-103).
FirstUpdate(w) ==
    IF w.kind = "SighashWithAction" THEN <<1>> \o w.body ELSE <<0>>

\* A check that lets a witness of one byte pass.
NonEmpty_OffByOne(w) == Len(w) > 1

\* w.len() > 0 (lib.rs 113)
NonEmpty(w) == Len(w) > 0

\* A digest that hashes the remaining witnesses without their lengths.
RestUpdate_NoLength(w) == w

\* The bytes hashed for a witness past the inputs (lib.rs 132-133).
RestUpdate(w) == LeBytes(Len(w), U64Len) \o w

SighashReturn(r) ==
    /\ ret' = r
    /\ pc' = "done"

\* hasher.update(&load_tx_hash()?) (lib.rs 83-86)
SighashTxHash ==
    /\ pc = "tx_hash"
    /\ log' = Logged("load_tx_hash", "", 0)
    /\ LET r == LoadTxHash IN
       IF r.st = "Ok"
       THEN /\ fed' = fed \o r.out
            /\ pc' = "first"
            /\ UNCHANGED ret
       ELSE /\ SighashReturn(Err(SysToError(r.err)))
            /\ UNCHANGED fed
    /\ UNCHANGED <<portVars, op, i, lo, hi, found, typed, eipVars, pairVars>>

\* The first witness of the group (lib.rs 89-106), then `let mut i = 1`.
SighashFirst ==
    /\ pc = "first"
    /\ log' = Logged("load_witness", "GroupInput", 0)
    /\ LET r == LoadWitness(0, "GroupInput")
           w == ParseWitness(r.out)
       IN IF r.st # "Ok"
          THEN /\ SighashReturn(Err(SysToError(r.err)))
               /\ UNCHANGED <<fed, i>>
          ELSE IF w.kind = "Invalid"
          THEN /\ SighashReturn(Err("MoleculeEncoding"))
               /\ UNCHANGED <<fed, i>>
          ELSE IF w.kind \in {"SighashWithAction", "Sighash"}
          THEN /\ fed' = fed \o FirstUpdate(w)
               /\ i' = 1
               /\ pc' = "group"
               /\ UNCHANGED ret
          ELSE /\ SighashReturn(Err("NotSighashVariant"))
               /\ UNCHANGED <<fed, i>>
    /\ UNCHANGED <<portVars, op, lo, hi, found, typed, eipVars, pairVars>>

\* One iteration of the loop over the group's other witnesses (lib.rs
\* 110-123); its break enters calculate_inputs_len (lo = 0, hi = 4).
SighashGroup ==
    /\ pc = "group"
    /\ log' = Logged("load_witness", "GroupInput", i)
    /\ LET r == LoadWitness(i, "GroupInput") IN
       IF r.st = "Ok"
       THEN IF NonEmpty(r.out)
            THEN /\ SighashReturn(Err("NonEmptyGroupWitness"))
                 /\ UNCHANGED <<i, lo, hi>>
            ELSE /\ i' = i + 1
                 /\ UNCHANGED <<pc, ret, lo, hi>>
       ELSE IF r.err = "IndexOutOfBound"
            THEN /\ pc' = "exp"
                 /\ lo' = 0
                 /\ hi' = InitialHi
                 /\ UNCHANGED <<i, ret>>
            ELSE /\ SighashReturn(Err(SysToError(r.err)))
                 /\ UNCHANGED <<i, lo, hi>>
    /\ UNCHANGED <<portVars, op, found, fed, typed, eipVars, pairVars>>

\* One iteration of the loop over the witnesses past the inputs (lib.rs
\* 129-141); its break finalizes the hasher (lib.rs 144-147).
SighashRest ==
    /\ pc = "rest"
    /\ log' = Logged("load_witness", "Input", i)
    /\ LET r == LoadWitness(i, "Input") IN
       IF r.st = "Ok"
       THEN /\ fed' = fed \o RestUpdate(r.out)
            /\ i' = i + 1
            /\ UNCHANGED <<pc, ret>>
       ELSE IF r.err = "IndexOutOfBound"
            THEN /\ SighashReturn(Ok(Blake2b(fed)))
                 /\ UNCHANGED <<fed, i>>
            ELSE /\ SighashReturn(Err(SysToError(r.err)))
                 /\ UNCHANGED <<fed, i>>
    /\ UNCHANGED <<portVars, op, lo, hi, found, typed, eipVars, pairVars>>

-----------------------------------------------------------------------------
(* eip712.rs: the data model (schemas::basic).                             *)
(*   Hash:  Byte32(raw) | RefCell(source, index, offset) |                 *)
(*          RefTransaction(offset); the numeric fields are little-endian   *)
(*          byte strings as in the schema                                  *)
(*   Value: a record with its kind, its raw bytes (scalars), its values    *)
(*          (Array, Struct) and its type hash (Struct).  The kind          *)
(*          "Malformed" is a serialized value that does not verify.        *)

NoHash == [kind |-> "None", raw |-> <<>>, source |-> <<>>, index |-> <<>>,
           offset |-> <<>>]
Byte32(h) == [NoHash EXCEPT !.kind = "Byte32", !.raw = h]
RefCell(source, index, offset) ==
    [NoHash EXCEPT !.kind = "RefCell", !.source = source, !.index = index,
                   !.offset = offset]
RefTransaction(offset) ==
    [NoHash EXCEPT !.kind = "RefTransaction", !.offset = offset]

NoValue == [kind |-> "None", raw |-> <<>>, vals |-> <<>>, th |-> NoHash]
Leaf(kind, raw) == [NoValue EXCEPT !.kind = kind, !.raw = raw]
Array(vals) == [NoValue EXCEPT !.kind = "Array", !.vals = vals]
Struct(th, vals) == [NoValue EXCEPT !.kind = "Struct", !.th = th, !.vals = vals]

\* Source::X as u64, little-endian (ckb_constants::Source)
SourceInput == <<1, 0, 0, 0, 0, 0, 0, 0>>
SourceOutput == <<2, 0, 0, 0, 0, 0, 0, 0>>
SourceCellDep == <<3, 0, 0, 0, 0, 0, 0, 0>>
SourceHeaderDep == <<4, 0, 0, 0, 0, 0, 0, 0>>
SourceGroupInput == <<1, 0, 0, 0, 0, 0, 0, 1>>
SourceGroupOutput == <<2, 0, 0, 0, 0, 0, 0, 1>>

\* u64_to_source(u64::from_le_bytes(t))
u64_to_source(source) ==
    CASE source = SourceInput -> Ok("Input")
      [] source = SourceOutput -> Ok("Output")
      [] source = SourceCellDep -> Ok("CellDep")
      [] source = SourceHeaderDep -> Ok("HeaderDep")
      [] source = SourceGroupInput -> Ok("GroupInput")
      [] source = SourceGroupOutput -> Ok("GroupOutput")
      [] OTHER -> Err("InvalidSource")

\* u32::from_le_bytes(t)
U32FromLe(t) == t[1] + 256 * t[2] + 65536 * t[3] + 16777216 * t[4]

\* The cells of the transaction the typed message refers to: the data of
\* the cell at (source, index), or <<-1>> where there is no such cell.
CellData(source, index) ==
    CASE source \in {"Input", "GroupInput"} /\ index = 0 ->
             [k \in 1..40 |-> 100 + k]
      [] source = "Output" /\ index = 0 -> [k \in 1..32 |-> 200 - k]
      [] source = "CellDep" /\ index = 0 -> [k \in 1..10 |-> k]
      [] OTHER -> <<-1>>

\* The serialized transaction.
TransactionBytes == [k \in 1..48 |-> 50 + k]

\* A partial load into `result` ([0u8; 32]) from data at offset: Ok(n) with
\* the n <= 32 bytes left, or LengthNotEnough when more than 32 are left;
\* the buffer holds what fits either way.
LoadInto(data, offset) ==
    LET left == IF Len(data) > offset THEN Len(data) - offset ELSE 0
        buf == [k \in 1..HashLen |-> IF k <= left THEN data[offset + k] ELSE 0]
    IN IF left > HashLen
       THEN [st |-> "Err", err |-> "LengthNotEnough", n |-> left, out |-> buf]
       ELSE [st |-> "Ok", err |-> "", n |-> left, out |-> buf]

\* syscalls::load_cell_data(&mut result, offset, index, source)
LoadCellData(offset, index, source) ==
    IF CellData(source, index) = <<-1>>
    THEN [st |-> "Err", err |-> "IndexOutOfBound", n |-> 0, out |-> <<>>]
    ELSE LoadInto(CellData(source, index), offset)

\* syscalls::load_transaction(&mut result, offset)
LoadTransaction(offset) == LoadInto(TransactionBytes, offset)

\* The match on the syscall's result (eip712.rs 108-116, 124-132).
HashWindow(r) ==
    IF r.st = "Ok"
    THEN IF r.n < HashLen THEN Err("CellDataEof") ELSE Ok(r.out)
    ELSE IF r.err = "LengthNotEnough" THEN Ok(r.out)
         ELSE Err(SysToError(r.err))

fetch_hash(h) ==
    CASE h.kind = "Byte32" -> Ok(h.raw)
      [] h.kind = "RefCell" ->
             LET s == u64_to_source(h.source) IN
             IF s.st # "Ok" THEN Err(s.err)
             ELSE HashWindow(LoadCellData(U32FromLe(h.offset),
                                          U32FromLe(h.index), s.out))
      [] h.kind = "RefTransaction" ->
             HashWindow(LoadTransaction(U32FromLe(h.offset)))

encode_number(n, signed) ==
    IF Len(n) > NumberWidth THEN Err("InvalidNumber")
    ELSE IF signed /\ Len(n) = 0 THEN Panic     \* n[0] of an empty slice
    ELSE LET fill == IF signed /\ (n[1] \div 128) % 2 # 0 THEN 255 ELSE 0
             pad == NumberWidth - Len(n)
         IN Ok([k \in 1..NumberWidth |-> IF k <= pad THEN fill ELSE n[k - pad]])

\* The FixedBytes arm of encode_value (eip712.rs 188-195).
encode_fixed_bytes(f) ==
    IF Len(f) > FixedBytesWidth THEN Err("InvalidFixedBytes")
    ELSE Ok([k \in 1..FixedBytesWidth |-> IF k <= Len(f) THEN f[k] ELSE 0])

RECURSIVE encode_value(_)
RECURSIVE encode_values(_)
RECURSIVE ThenEncode(_, _)
RECURSIVE ThenValues(_, _)
RECURSIVE hash_struct_input(_)
RECURSIVE hash_struct(_)
RECURSIVE encode_array(_)

\* `?` on a member's result r, then the members after it.
ThenEncode(r, after) ==
    IF r.st # "Ok" THEN r
    ELSE [encode_values(after) EXCEPT !.out = r.out \o @]

\* The loop over the serialized values (eip712.rs 141-145, 158-162): each
\* is verified (ValueReader::from_slice), then encoded into the hasher.
encode_values(vals) ==
    IF vals = <<>> THEN Ok(<<>>)
    ELSE IF Head(vals).kind = "Malformed" THEN Err("MoleculeEncoding")
    ELSE ThenEncode(encode_value(Head(vals)), Tail(vals))

\* `?` on the type hash t, then the values.
ThenValues(t, vals) ==
    IF t.st # "Ok" THEN t
    ELSE [encode_values(vals) EXCEPT !.out = t.out \o @]

\* What hash_struct gives its hasher: the type hash, then the values.
hash_struct_input(s) == ThenValues(fetch_hash(s.th), s.vals)

\* hasher.finalize() of that input, or the error met on the way.
Finalize(inp) ==
    IF inp.st = "Ok" THEN Ok(Keccak256(inp.out))
    ELSE [inp EXCEPT !.out = <<>>]

hash_struct(s) == Finalize(hash_struct_input(s))

\* An Array arm that hashes the elements' encodings and gives the hasher
\* of the enclosing struct that digest.
encode_array_hashed(a) == Finalize(encode_values(a.vals))

\* The Array arm of encode_value (eip712.rs 157-163): every element is
\* encoded into the hasher of the enclosing struct.
encode_array(a) == encode_values(a.vals)

\* The result's out is what the call gave to `hasher`.
encode_value(v) ==
    CASE v.kind = "Struct" -> hash_struct(v)
      [] v.kind = "Array" -> encode_array(v)
      [] v.kind = "Bool" ->
             IF v.raw[1] # 0 /\ v.raw[1] # 1 THEN Err("InvalidBool")
             ELSE encode_number(v.raw, FALSE)
      [] v.kind \in {"Bytes", "String"} -> Ok(Keccak256(v.raw))
      [] v.kind = "Address" -> encode_number(v.raw, FALSE)
      [] v.kind = "FixedBytes" -> encode_fixed_bytes(v.raw)
      [] v.kind = "Int" -> encode_number(v.raw, TRUE)
      [] v.kind = "Uint" -> encode_number(v.raw, FALSE)

build_typed_message_hash(domain_separator, message) ==
    LET d == fetch_hash(domain_separator) IN
    IF d.st # "Ok" THEN d
    ELSE LET m == hash_struct(message) IN
         IF m.st # "Ok" THEN m
         ELSE Ok(Keccak256(<<25, 1>> \o d.out \o m.out))

\* A call of encode_value on a new hasher.
EncodeValue ==
    /\ pc = "eip"
    /\ op = "encode_value"
    /\ LET r == encode_value(val) IN
       /\ fed' = r.out
       /\ ret' = [r EXCEPT !.out = <<>>]
    /\ pc' = "done"
    /\ UNCHANGED <<portVars, op, i, lo, hi, found, typed, log, eipVars,
                   pairVars>>

\* A call of hash_struct.
HashStruct ==
    /\ pc = "eip"
    /\ op = "hash_struct"
    /\ fed' = hash_struct_input(val).out
    /\ ret' = hash_struct(val)
    /\ pc' = "done"
    /\ UNCHANGED <<portVars, op, i, lo, hi, found, typed, log, eipVars,
                   pairVars>>

\* A call of build_typed_message_hash; fed is the outer hasher's input.
BuildTypedMessageHash ==
    /\ pc = "eip"
    /\ op = "build_typed_message_hash"
    /\ LET d == fetch_hash(dom)
           m == hash_struct(val)
       IN fed' = IF d.st # "Ok" THEN <<25, 1>>
                 ELSE IF m.st # "Ok" THEN <<25, 1>> \o d.out
                 ELSE <<25, 1>> \o d.out \o m.out
    /\ ret' = build_typed_message_hash(dom, val)
    /\ pc' = "done"
    /\ UNCHANGED <<portVars, op, i, lo, hi, found, typed, log, eipVars,
                   pairVars>>

-----------------------------------------------------------------------------
(* The second of two transactions that are compared: the Port is switched  *)
(* to it once the digest of the first has returned.                        *)

SecondRun ==
    /\ pc = "done"
    /\ run = 1
    /\ op = "generate_sighash_all_hash"
    /\ first' = [ret |-> ret, fed |-> fed]
    /\ witnesses' = other.witnesses
    /\ other' = [witnesses |-> witnesses]
    /\ run' = 2
    /\ pc' = "tx_hash"
    /\ i' = 0
    /\ lo' = 0
    /\ hi' = InitialHi
    /\ fed' = <<>>
    /\ ret' = NoResult
    /\ log' = <<>>
    /\ UNCHANGED <<txHash, nInputs, group, fault, op, found, typed, eipVars>>

-----------------------------------------------------------------------------
(* Inputs.                                                                 *)

SeqsUpTo(S, n) == UNION {[1..k -> S] : k \in 0..n}

RECURSIVE SortedSeq(_)
\* The elements of a set of numbers in increasing order.
SortedSeq(S) ==
    IF S = {} THEN <<>>
    ELSE LET m == CHOOSE x \in S : \A y \in S : x <= y
         IN <<m>> \o SortedSeq(S \ {m})

\* The script groups a transaction of n inputs can have.
Groups(n) == {SortedSeq(S) : S \in SUBSET (0..(n - 1))}

TxHashA == [k \in 1..HashLen |-> k]
TxHashB == [k \in 1..HashLen |-> 255 - k]

\* Witnesses: two Sighash of different signatures, two SighashWithAction of
\* different messages, a further variant, bytes that are no ExtendedWitness,
\* an empty witness (which is no ExtendedWitness either).
WSighash == <<IdSighash, 7>>
WSighash2 == <<IdSighash, 8>>
WAction == <<IdSighashWithAction, 5>>
WAction2 == <<IdSighashWithAction, 6, 6>>
WOther == <<IdOtherVariant>>
WInvalid == <<9>>
WEmpty == <<>>

ScanPool == {WSighash, WAction, WAction2, WOther, WInvalid, WEmpty}
TxPool == {WSighash, WAction, WOther, WEmpty}
PairPool == {WSighash, WSighash2, WAction, WEmpty}

\* The SysErrors a syscall fails with besides IndexOutOfBound.
SysErrors == {"ItemMissing", "LengthNotEnough(40)", "Encoding", "Unknown(7)"}

WitnessFault(source, idx, e) ==
    [call |-> "load_witness", source |-> source, index |-> idx, err |-> e]
SinceFault(idx, e) ==
    [call |-> "load_input_since", source |-> "Input", index |-> idx, err |-> e]
TxHashFault(e) == [call |-> "load_tx_hash", source |-> "", index |-> 0, err |-> e]

NoFirst == [ret |-> NoResult, fed |-> <<>>]

\* The program's variables at the call of operation o, entered at p.
AtCall(o, p) ==
    /\ op = o
    /\ pc = p
    /\ i = 0
    /\ lo = 0
    /\ hi = InitialHi
    /\ found = <<>>
    /\ fed = <<>>
    /\ ret = NoResult
    /\ typed = "unset"
    /\ log = <<>>
    /\ first = NoFirst
    /\ run = 1

NoEip ==
    /\ val = NoValue
    /\ dom = NoHash

\* fetch_sighash_with_action or is_typed_transaction on any witness list.
InitScan ==
    /\ txHash = TxHashA
    /\ nInputs = 1
    /\ group = <<0>>
    /\ witnesses \in SeqsUpTo(ScanPool, MaxWitnesses)
    /\ fault \in {NoFault} \cup {WitnessFault("Input", j, e) :
                                    j \in 0..MaxWitnesses, e \in SysErrors}
    /\ \E o \in {"fetch_sighash_with_action", "is_typed_transaction"} :
           AtCall(o, "find")
    /\ other = [witnesses |-> <<>>]
    /\ NoEip

NextScan == FetchFind \/ FetchDup \/ IsTypedTransaction

SpecScan == InitScan /\ [][NextScan]_vars

\* The script runs to its end: no step of it is postponed forever.
FairSpecScan == SpecScan /\ WF_vars(NextScan)

\* calculate_inputs_len on a transaction of any number of inputs.
InitCount ==
    /\ txHash = TxHashA
    /\ nInputs \in 0..MaxInputs
    /\ group = <<>>
    /\ witnesses = <<>>
    /\ fault \in {NoFault} \cup {SinceFault(j, e) :
                                    j \in 1..(2 * MaxInputs), e \in SysErrors}
    /\ AtCall("calculate_inputs_len", "exp")
    /\ other = [witnesses |-> <<>>]
    /\ NoEip

NextCount == CountExp \/ CountBin

SpecCount == InitCount /\ [][NextCount]_vars

\* generate_sighash_all_hash on a transaction of at least one input.
InitSighash ==
    /\ txHash \in {TxHashA, TxHashB}
    /\ nInputs \in 1..MaxTxInputs
    /\ group \in Groups(nInputs)
    /\ witnesses \in SeqsUpTo(TxPool, MaxTxWitnesses)
    /\ fault \in {NoFault, TxHashFault("Encoding"),
                  WitnessFault("GroupInput", 0, "ItemMissing"),
                  WitnessFault("GroupInput", 1, "LengthNotEnough(40)"),
                  SinceFault(2, "Unknown(7)"),
                  WitnessFault("Input", 1, "Encoding"),
                  WitnessFault("Input", 2, "ItemMissing")}
    /\ AtCall("generate_sighash_all_hash", "tx_hash")
    /\ other = [witnesses |-> <<>>]
    /\ NoEip

NextSighash ==
    \/ SighashTxHash
    \/ SighashFirst
    \/ SighashGroup
    \/ CountExp
    \/ CountBin
    \/ SighashRest

SpecSighash == InitSighash /\ [][NextSighash]_vars

\* Two transactions of the same hash, inputs and script group whose
\* witnesses agree on the variant of the group's first witness (and its
\* message, for a SighashWithAction) and on every witness past the inputs.
Trailing(ws, n) == SubSeq(ws, n + 1, Len(ws))

GroupFirst(ws, g) ==
    IF g # <<>> /\ g[1] < Len(ws)
    THEN LET w == ParseWitness(ws[g[1] + 1])
         IN [kind |-> w.kind,
             body |-> IF w.kind = "SighashWithAction" THEN w.body ELSE <<>>]
    ELSE [kind |-> "none", body |-> <<>>]

Agree(wa, wb, n, g) ==
    /\ Trailing(wa, n) = Trailing(wb, n)
    /\ GroupFirst(wa, g) = GroupFirst(wb, g)

InitPair ==
    /\ txHash = TxHashA
    /\ nInputs \in 1..MaxTxInputs
    /\ group \in Groups(nInputs)
    /\ witnesses \in SeqsUpTo(PairPool, MaxPairWitnesses)
    /\ \E wb \in SeqsUpTo(PairPool, MaxPairWitnesses) :
           /\ Agree(witnesses, wb, nInputs, group)
           /\ other = [witnesses |-> wb]
    /\ fault = NoFault
    /\ AtCall("generate_sighash_all_hash", "tx_hash")
    /\ NoEip

NextPair == NextSighash \/ SecondRun

SpecPair == InitPair /\ [][NextPair]_vars

\* eip712: the values and hashes given to the digest engine.
U32(n) == LeBytes(n, 4)

HInline == Byte32([k \in 1..HashLen |-> 64 + k])
HCellLong == RefCell(SourceInput, U32(0), U32(0))       \* 40 bytes left
HCellExact == RefCell(SourceOutput, U32(0), U32(0))     \* 32 bytes left
HCellShort == RefCell(SourceCellDep, U32(0), U32(0))    \* 10 bytes left
HCellNone == RefCell(SourceOutput, U32(1), U32(0))      \* no such cell
HBadSource == RefCell(<<5, 0, 0, 0, 0, 0, 0, 0>>, U32(0), U32(0))
HTx == RefTransaction(U32(16))                          \* 32 bytes left
HTxShort == RefTransaction(U32(40))                     \* 8 bytes left

Hashes == {HInline, HCellLong, HCellExact, HCellShort, HCellNone,
           HBadSource, HTx, HTxShort}

FirstBytes == {0, 1, 127, 128, 255}
RestBytes == {1, 255}
Payload(len, a, b) == [k \in 1..len |-> IF k = 1 THEN a ELSE b]
Payloads ==
    {Payload(len, a, b) : len \in 0..MaxPayloadLen, a \in FirstBytes,
                          b \in RestBytes}

Scalars ==
    {Leaf(kd, p) : kd \in {"Int", "Uint", "FixedBytes"}, p \in Payloads}
    \cup {Leaf("Bool", <<b>>) : b \in {0, 1, 2}}
    \cup {Leaf("Bytes", <<>>), Leaf("Bytes", <<1, 2>>), Leaf("String", <<1, 2>>),
          Leaf("Address", [k \in 1..20 |-> 160 + k])}

\* The members of arrays and structs.
Members ==
    {Leaf("Uint", <<1>>), Leaf("Int", <<255>>), Leaf("Int", <<>>),
     Leaf("Bool", <<2>>), Leaf("Bytes", <<1, 2>>), Leaf("FixedBytes", <<7>>),
     Leaf("Malformed", <<>>), Array(<<>>),
     Array(<<Leaf("Uint", <<1>>), Leaf("Int", <<255>>)>>),
     Struct(HInline, <<Leaf("Uint", <<1>>)>>)}

MemberLists == SeqsUpTo(Members, MaxArrayLen)
Arrays == {Array(vs) : vs \in MemberLists}
TypeHashes == {HInline, HCellLong, HCellShort}
Structs ==
    {Struct(t, vs) : t \in TypeHashes, vs \in MemberLists}
    \cup {Struct(t, <<Array(vs)>>) : t \in TypeHashes, vs \in MemberLists}
Messages == {Struct(t, <<m>>) : t \in {HInline, HCellShort}, m \in Members}

InitEncode ==
    /\ txHash = TxHashA
    /\ nInputs = 1
    /\ group = <<0>>
    /\ witnesses = <<>>
    /\ fault = NoFault
    /\ other = [witnesses |-> <<>>]
    /\ \/ /\ AtCall("encode_value", "eip")
          /\ val \in Scalars \cup Arrays \cup Structs
          /\ dom = NoHash
       \/ /\ AtCall("hash_struct", "eip")
          /\ val \in Structs
          /\ dom = NoHash
       \/ /\ AtCall("build_typed_message_hash", "eip")
          /\ val \in Messages
          /\ dom \in Hashes

NextEncode == EncodeValue \/ HashStruct \/ BuildTypedMessageHash

SpecEncode == InitEncode /\ [][NextEncode]_vars

\* Every operation of the library, on every input above.
Init == InitScan \/ InitCount \/ InitSighash \/ InitPair \/ InitEncode

Next == NextScan \/ NextCount \/ NextSighash \/ SecondRun \/ NextEncode

Spec == Init /\ [][Next]_vars

-----------------------------------------------------------------------------
(* Properties of the witness scan.                                         *)

\* The witness is a SighashWithAction.
IsAction(w) == Len(w) > 0 /\ w[1] = IdSighashWithAction

\* How many witnesses of the list are a SighashWithAction.
ActionCount(ws) == Cardinality({j \in 1..Len(ws) : IsAction(ws[j])})

\* The message of the first SighashWithAction of the list.
FirstAction(ws) ==
    LET j == CHOOSE k \in 1..Len(ws) :
                 /\ IsAction(ws[k])
                 /\ \A m \in 1..(k - 1) : ~IsAction(ws[m])
    IN Tail(ws[j])

\* C1: with exactly one SighashWithAction among the Input witnesses, at any
\* position, and no failing syscall, fetch_sighash_with_action returns Ok
\* with the message of that witness.
C1_SingleActionReturned ==
    (ActionCount(witnesses) = 1 /\ fault = NoFault)
        => <>(/\ pc = "done"
              /\ ActionCount(witnesses) = 1
              /\ ret = Ok(FirstAction(witnesses)))

\* C2: with two or more SighashWithAction among the Input witnesses, wherever
\* the second lies, and no failing syscall, fetch_sighash_with_action
\* returns DuplicateAction.
C2_DuplicateRejected ==
    (ActionCount(witnesses) >= 2 /\ fault = NoFault)
        => <>(pc = "done" /\ ret = Err("DuplicateAction"))

\* C4: every call returns (Ok or an error) after finitely many syscalls.
C4_Terminates == <>(pc = "done")

\* C7: with no SighashWithAction among the Input witnesses (none at all, or
\* only other variants and witnesses that do not parse) and no failing
\* syscall, fetch_sighash_with_action returns NotTypedTransaction and
\* is_typed_transaction returns false.
C7_NotTyped ==
    (ActionCount(witnesses) = 0 /\ fault = NoFault)
        => <>(/\ pc = "done"
              /\ ret = Err("NotTypedTransaction")
              /\ op = "is_typed_transaction" => typed = "false")

\* C7 happens: is_typed_transaction has returned false on a scan that
\* passed a witness that does not parse and one of a third variant.
C7_Witness ==
    /\ pc = "done"
    /\ op = "is_typed_transaction"
    /\ typed = "false"
    /\ fault = NoFault
    /\ ActionCount(witnesses) = 0
    /\ \E j, k \in 1..Len(witnesses) :
           witnesses[j] = WInvalid /\ witnesses[k] = WOther

-----------------------------------------------------------------------------
(* Properties of the input-count probe.                                    *)

\* The syscall chosen to fail was made.
FaultMet ==
    \E j \in 1..Len(log) : Faulty(log[j].call, log[j].source, log[j].index)

\* C3 as stated: calculate_inputs_len returns exactly the number of inputs
\* k, for every k >= 0, when no probe fails with another error.
C3_CountExact ==
    (pc = "done" /\ op = "calculate_inputs_len" /\ ~FaultMet)
        => ret = Ok(<<nInputs>>)

\* C3 amended: calculate_inputs_len returns exactly the number of inputs k
\* for every k >= 1, and 1 for k = 0 (index 0 is never probed), when no
\* probe fails with another error.
C3_CountExactFromOne ==
    (pc = "done" /\ op = "calculate_inputs_len" /\ ~FaultMet)
        => ret = Ok(<<IF nInputs = 0 THEN 1 ELSE nInputs>>)

\* C3 happens: the probe has returned 5 for 5 inputs, after the doubling
\* phase moved on once and the search probed both sides.
C3_Witness ==
    /\ pc = "done"
    /\ op = "calculate_inputs_len"
    /\ nInputs = 5
    /\ ret = Ok(<<5>>)
    /\ fault = NoFault
    /\ Len(log) >= 4

-----------------------------------------------------------------------------
(* Properties of the sighash-all digest.                                   *)

\* The GroupInput witness 0, parsed; "none" when there is none.
GroupHead == GroupFirst(witnesses, group)

\* Some GroupInput witness at an index >= 1 has a non-zero length.
NonEmptyAfterFirst(ws, g) ==
    \E j \in 2..Len(g) : g[j] < Len(ws) /\ Len(ws[g[j] + 1]) > 0

RECURSIVE LengthPrefixed(_)
\* Each witness of a list as its length in 8 little-endian bytes (all are
\* shorter than 256 bytes here) and its bytes.
LengthPrefixed(ws) ==
    IF ws = <<>> THEN <<>>
    ELSE <<Len(Head(ws)), 0, 0, 0, 0, 0, 0, 0>> \o Head(ws)
             \o LengthPrefixed(Tail(ws))

\* The marker of the group's first witness, and its message if any.
MarkerBytes(h) ==
    IF h.kind = "SighashWithAction" THEN <<1>> \o h.body ELSE <<0>>

\* C5: when generate_sighash_all_hash succeeds, the hasher was given the
\* transaction hash, then 0 for a Sighash or 1 and the message (without a
\* length) for a SighashWithAction, then every Input witness from index
\* nInputs on as its 8-byte little-endian length and its bytes, and nothing
\* else; the digest of that is returned.
C5_FedBytes ==
    (pc = "done" /\ op = "generate_sighash_all_hash" /\ ret.st = "Ok")
        => /\ GroupHead.kind \in {"Sighash", "SighashWithAction"}
           /\ fed = txHash \o MarkerBytes(GroupHead)
                      \o LengthPrefixed(Trailing(witnesses, nInputs))
           /\ (GroupHead.kind = "Sighash" /\ Len(witnesses) <= nInputs
                   => fed = txHash \o <<0>>)
           /\ ret = Ok(Blake2b(fed))

\* C5 happens: a digest was returned for a SighashWithAction group witness
\* and two witnesses past the inputs, one of them empty.
C5_Witness ==
    /\ pc = "done"
    /\ op = "generate_sighash_all_hash"
    /\ ret.st = "Ok"
    /\ GroupHead.kind = "SighashWithAction"
    /\ Len(witnesses) = nInputs + 2
    /\ \E j \in (nInputs + 1)..Len(witnesses) : witnesses[j] = WEmpty
    /\ \E j \in (nInputs + 1)..Len(witnesses) : witnesses[j] # WEmpty

\* The syscalls made after the read of GroupInput witness 0.
LaterReads == {j \in 1..Len(log) : j > 2}

\* C6: with a Sighash or SighashWithAction as GroupInput witness 0,
\* generate_sighash_all_hash returns NonEmptyGroupWitness exactly when some
\* GroupInput witness at an index >= 1 is not empty, and succeeds when all
\* are empty, no syscall failing for another reason; a GroupInput witness 0
\* of another variant gives NotSighashVariant with no later witness read.
C6_GroupShape ==
    (pc = "done" /\ op = "generate_sighash_all_hash")
        => /\ ret = Err("NonEmptyGroupWitness")
                  => /\ NonEmptyAfterFirst(witnesses, group)
                     /\ GroupHead.kind \in {"Sighash", "SighashWithAction"}
           /\ (GroupHead.kind \in {"Sighash", "SighashWithAction"} /\ ~FaultMet)
                  => IF NonEmptyAfterFirst(witnesses, group)
                     THEN ret = Err("NonEmptyGroupWitness")
                     ELSE ret.st = "Ok"
           /\ (GroupHead.kind = "Other" /\ ~FaultMet)
                  => /\ ret = Err("NotSighashVariant")
                     /\ LaterReads = {}

\* C6 happens: a digest was returned for a group of two inputs whose second
\* witness is empty, and another call was refused for a non-empty one.
C6_Witness ==
    /\ pc = "done"
    /\ op = "generate_sighash_all_hash"
    /\ fault = NoFault
    /\ group = <<0, 1>>
    /\ Len(witnesses) >= 2
    /\ GroupHead.kind = "SighashWithAction"
    /\ witnesses[2] = WEmpty
    /\ ret.st = "Ok"

\* C10 as stated: two transactions that agree on the transaction hash, the
\* input count, the variant (and message) of GroupInput witness 0 and the
\* witnesses past the inputs give the hasher the same bytes and return the
\* same result.
C10_SameResult ==
    (pc = "done" /\ run = 2) => (ret = first.ret /\ fed = first.fed)

\* C10 amended: they do when they also agree on whether some GroupInput
\* witness at an index >= 1 is not empty.
C10_SameResultSameShape ==
    (/\ pc = "done"
     /\ run = 2
     /\ NonEmptyAfterFirst(witnesses, group)
            = NonEmptyAfterFirst(other.witnesses, group))
        => (ret = first.ret /\ fed = first.fed)

\* C10 happens: both digests were returned, for two transactions whose
\* Sighash group witnesses carry different signature bytes.
C10_Witness ==
    /\ pc = "done"
    /\ run = 2
    /\ ret.st = "Ok"
    /\ first.ret.st = "Ok"
    /\ GroupHead.kind = "Sighash"
    /\ witnesses[group[1] + 1] # other.witnesses[group[1] + 1]

-----------------------------------------------------------------------------
(* Properties of the typed-message encoding.                               *)

\* The 32 bytes of a number: the payload at the right, the head filled.
RightAligned(n, fill) ==
    [k \in 1..32 |-> IF k <= 32 - Len(n) THEN fill ELSE n[k - (32 - Len(n))]]

\* The fill of the head: 0xFF for an Int whose first byte has its top bit
\* set, 0x00 otherwise.
HeadFill(v) ==
    IF v.kind = "Int" /\ Len(v.raw) > 0 /\ v.raw[1] >= 128 THEN 255 ELSE 0

\* C8: encode of an Int or Uint payload of 0 to 32 bytes succeeds and gives
\* the hasher exactly the 32 bytes of the right-aligned payload, the head
\* filled with 0xFF for a negative Int and 0x00 otherwise; a longer payload
\* gives InvalidNumber; no payload length makes encode crash.
C8_NumberEncoding ==
    (pc = "done" /\ op = "encode_value" /\ val.kind \in {"Int", "Uint"})
        => /\ ret.st # "Panic"
           /\ IF Len(val.raw) <= 32
              THEN /\ ret.st = "Ok"
                   /\ fed = RightAligned(val.raw, HeadFill(val))
              ELSE /\ ret = Err("InvalidNumber")
                   /\ fed = <<>>

RECURSIVE Concatenated(_)
\* What the members of a list give the hasher one after the other, each
\* encoded on its own.
Concatenated(vals) ==
    IF vals = <<>> THEN <<>>
    ELSE encode_value(Head(vals)).out \o Concatenated(Tail(vals))

\* Every member of the list verifies and encodes.
AllEncode(vals) ==
    \A j \in 1..Len(vals) :
        vals[j].kind # "Malformed" /\ encode_value(vals[j]).st = "Ok"

\* The struct holds one value, an Array.
HoldsOneArray(v) ==
    v.kind = "Struct" /\ Len(v.vals) = 1 /\ v.vals[1].kind = "Array"

\* C9: encode of an Array gives the enclosing hasher the encodings of its
\* elements in order and nothing else (no bytes for an empty Array), so a
\* Struct of the one value Array[v1..vk] has the hasher input and the
\* digest of the Struct of the same type hash and the values v1..vk.
C9_ArrayFlattens ==
    /\ (pc = "done" /\ op = "encode_value" /\ val.kind = "Array")
           => IF AllEncode(val.vals)
              THEN ret.st = "Ok" /\ fed = Concatenated(val.vals)
              ELSE ret.st # "Ok"
    /\ (pc = "done" /\ op = "hash_struct" /\ HoldsOneArray(val))
           => /\ ret = hash_struct(Struct(val.th, val.vals[1].vals))
              /\ fed = hash_struct_input(Struct(val.th, val.vals[1].vals)).out
              /\ (ret.st = "Ok" /\ AllEncode(val.vals[1].vals))
                     => fed = fetch_hash(val.th).out
                                \o Concatenated(val.vals[1].vals)

\* C9 happens: hash_struct has returned the digest of a struct whose one
\* value is an Array of two elements, one of them an Array itself.
C9_Witness ==
    /\ pc = "done"
    /\ op = "hash_struct"
    /\ HoldsOneArray(val)
    /\ ret.st = "Ok"
    /\ Len(val.vals[1].vals) = 2
    /\ \E j \in 1..2 : val.vals[1].vals[j].kind = "Array"
                         /\ val.vals[1].vals[j].vals # <<>>

=============================================================================
